---- MODULE Spec2Model ----
(***************************************************************************)
(* Model of weather_logic.py (the ride-or-not weather assistant): the      *)
(* pipeline main() = fetch -> match_time_slots -> summarize_forecast ->    *)
(* assess_weather_conditions -> ai_generate_summary -> decision extraction *)
(* -> send_email, and of the /run route of main.py that starts a run.      *)
(*                                                                         *)
(* Representation.                                                         *)
(*   - A text (str) is a sequence of tokens.  " " is a blank, "\n" and     *)
(*     "\r" are line boundaries (str.splitlines splits on both, rsplit     *)
(*     ("\n", 1) only on the first), every other token is a run of         *)
(*     non-blank characters: "[SAFE]" and "[NOT SAFE]" are the two tags,   *)
(*     "[safe]" a tag in the wrong case, "x" any other word.               *)
(*   - A weather description is a sequence of characters, so that lower()  *)
(*     and the substring test are computed.                                *)
(*   - A dict is a sequence of [k, v] pairs in insertion order (Python     *)
(*     dicts iterate in insertion order; overwriting keeps the position).  *)
(*   - dt_txt "YYYY-MM-DD HH:MM:SS" is [date, hh, mm, ss]; the label       *)
(*     strftime("%H:%M") is <<hh, mm>>.                                    *)
(*   - Rain volumes are in tenths of a millimetre (2.0 mm = 20).           *)
(*   - The forecast entries are blocks as the weather provider documents   *)
(*     them: a timestamp in the fixed format and the required fields.      *)
(*   - response.json() on a body that is no JSON raises requests'          *)
(*     JSONDecodeError, a RequestException (requests 2.27 and later).      *)
(*                                                                         *)
(* Specifications.                                                         *)
(*   Spec        one run of main(), from the fetch to the email            *)
(*   SpecPair    successive runs started by the /run route                 *)
(*   SpecMatch   match_time_slots applied to any forecast list             *)
(*   SpecAssess  assess_weather_conditions applied to any summary          *)
(***************************************************************************)
EXTENDS Integers, Sequences, FiniteSets, TLC

VARIABLES
    pc,             \* position of the run in main()
    response,       \* what the weather provider answered to requests.get
    forecast_data,  \* main: forecast_data (a [none, list] pair: None or a list)
    slots,          \* main: slots
    summary,        \* main: summary
    safe,           \* main: safe
    reasons,        \* main: reasons
    generated,      \* the value ai_generate_summary returned
    gen_failed,     \* whether the text-generation call raised
    ai_message,     \* main: ai_message
    emails,         \* the calls of send_email of this run, in order
    called,         \* the pipeline functions called by this run
    raised,         \* the exception that escaped main(), "" if none
    prev            \* the outcome of the previous run that reached a decision

vars == <<pc, response, forecast_data, slots, summary, safe, reasons, generated,
          gen_failed, ai_message, emails, called, raised, prev>>

----------------------------------------------------------------------------
(* Bounds of the model *)

MaxForecast == 2

MaxText == 3

MaxErr == 2

MaxSlots == 2

MaxPairText == 2

----------------------------------------------------------------------------
(* Constants of weather_logic.py *)

COMMUTE_TARGETS == << <<6, 0>>, <<9, 0>>, <<12, 0>>, <<15, 0>>, <<18, 0>> >>

MIN_TEMP == 5

MAX_WIND == 20

MIN_VISIBILITY == 3000

RAIN_LIMIT == 20

DEFAULT_VISIBILITY == 10000

DEFAULT_RAIN == 0

BAD_WEATHER ==
    << <<"s","n","o","w">>,
       <<"t","h","u","n","d","e","r","s","t","o","r","m">>,
       <<"h","a","i","l">> >>

DANGEROUS_RAIN ==
    << <<"h","e","a","v","y"," ","i","n","t","e","n","s","i","t","y"," ","r","a","i","n">>,
       <<"v","e","r","y"," ","h","e","a","v","y"," ","r","a","i","n">>,
       <<"e","x","t","r","e","m","e"," ","r","a","i","n">> >>

TAG_SAFE == "[SAFE]"

TAG_NOT_SAFE == "[NOT SAFE]"

SUBJECT_YES == "Ride Today: Yes"

SUBJECT_NO == "Ride Today: No"

SUBJECT_UNCLEAR == "Ride Today: Unclear"

SUBJECT_ERROR == "Ride Assistant Error"

BODY_NO_FORECAST == <<"Could not retrieve forecast.">>

BODY_NO_SLOTS == <<"No matching forecast slots found.">>

FALLBACK_PREFIX == <<"(AI summary failed):", " ">>

UNCLEAR_NOTE ==
    <<"\n", "\n", "(Note: Ride safety could not be determined automatically.)">>

----------------------------------------------------------------------------
(* str methods used by main() and ai_generate_summary() *)

IsSpace(c) == c \in {" ", "\n", "\r"}

IsLineBreak(c) == c \in {"\n", "\r"}

RECURSIVE LStrip(_)
LStrip(s) ==
    IF s # <<>> /\ IsSpace(Head(s)) THEN LStrip(Tail(s)) ELSE s

RECURSIVE RStrip(_)
RStrip(s) ==
    IF s # <<>> /\ IsSpace(s[Len(s)]) THEN RStrip(SubSeq(s, 1, Len(s) - 1)) ELSE s

\* str.strip()
Strip(s) == RStrip(LStrip(s))

\* str.splitlines(): lines end at "\n", "\r" or "\r\n"; a final line break
\* opens no empty last line.  cur is the line being read, acc the lines read.
RECURSIVE SplitFrom(_, _, _)
SplitFrom(s, cur, acc) ==
    IF s = <<>>
    THEN IF cur = <<>> THEN acc ELSE Append(acc, cur)
    ELSE IF Head(s) = "\r" /\ Len(s) >= 2 /\ s[2] = "\n"
         THEN SplitFrom(Tail(Tail(s)), <<>>, Append(acc, cur))
         ELSE IF IsLineBreak(Head(s))
              THEN SplitFrom(Tail(s), <<>>, Append(acc, cur))
              ELSE SplitFrom(Tail(s), Append(cur, Head(s)), acc)

SplitLines(s) == SplitFrom(s, <<>>, <<>>)

\* s.rsplit("\n", 1)[0]: what precedes the last "\n", the whole of s without one
RSplitHead(s) ==
    LET nl == {i \in DOMAIN s : s[i] = "\n"}
    IN  IF nl = {} THEN s
        ELSE SubSeq(s, 1, (CHOOSE i \in nl : \A j \in nl : j <= i) - 1)

UPPER == <<"A","B","C","D","E","F","G","H","I","J","K","L","M",
           "N","O","P","Q","R","S","T","U","V","W","X","Y","Z">>

LOWER == <<"a","b","c","d","e","f","g","h","i","j","k","l","m",
           "n","o","p","q","r","s","t","u","v","w","x","y","z">>

\* str.lower() on a description
Lower(s) ==
    [i \in DOMAIN s |->
        IF \E j \in DOMAIN UPPER : UPPER[j] = s[i]
        THEN LOWER[CHOOSE j \in DOMAIN UPPER : UPPER[j] = s[i]]
        ELSE s[i]]

\* sub in s
Contains(sub, s) ==
    \E i \in 0..(Len(s) - Len(sub)) : SubSeq(s, i + 1, i + Len(sub)) = sub

----------------------------------------------------------------------------
(* dict operations *)

DictKeys(d) == {d[i].k : i \in DOMAIN d}

\* d[key] = value
DictSet(d, key, value) ==
    IF key \in DictKeys(d)
    THEN [i \in DOMAIN d |-> IF d[i].k = key THEN [k |-> key, v |-> value] ELSE d[i]]
    ELSE Append(d, [k |-> key, v |-> value])

SeqToSet(s) == {s[i] : i \in DOMAIN s}

----------------------------------------------------------------------------
(* Forecast entries and the functions of the pipeline *)

\* An optional field of a JSON block: <<>> when absent, <<value>> when present.
Absent == <<>>

Present(value) == <<value>>

\* One block of the provider's "list".  rain is absent, or a dict whose "3h"
\* is itself optional.
Entry(date, hh, mm, ss, description, temp, wind, visibility, rain) ==
    [dt_txt |-> [date |-> date, hh |-> hh, mm |-> mm, ss |-> ss],
     description |-> description, temp |-> temp, wind |-> wind,
     visibility |-> visibility, rain |-> rain]

\* strptime(time_str, "%Y-%m-%d %H:%M:%S").strftime("%H:%M")
time_only(dt_txt) == <<dt_txt.hh, dt_txt.mm>>

\* Mutation of match_entry: the first entry of a label is kept
match_entry_no_overwrite(results, entry, target_times) ==
    IF time_only(entry.dt_txt) \in SeqToSet(target_times)
       /\ time_only(entry.dt_txt) \notin DictKeys(results)
    THEN DictSet(results, time_only(entry.dt_txt), entry)
    ELSE results

\* One iteration of the loop of match_time_slots
match_entry(results, entry, target_times) ==
    IF time_only(entry.dt_txt) \in SeqToSet(target_times)
    THEN DictSet(results, time_only(entry.dt_txt), entry)
    ELSE results

RECURSIVE match_loop(_, _, _)
match_loop(forecast, target_times, results) ==
    IF forecast = <<>> THEN results
    ELSE match_loop(Tail(forecast), target_times,
                    match_entry(results, Head(forecast), target_times))

match_time_slots(forecast, target_times) == match_loop(forecast, target_times, <<>>)

simplify_forecast(entry) ==
    [description |-> entry.description,
     temp |-> entry.temp,
     wind |-> entry.wind,
     visibility |-> IF entry.visibility = Absent THEN DEFAULT_VISIBILITY
                    ELSE entry.visibility[1],
     rain |-> IF entry.rain = Absent THEN DEFAULT_RAIN
              ELSE IF entry.rain[1] = Absent THEN DEFAULT_RAIN
              ELSE entry.rain[1][1]]

summarize_forecast(slots_) ==
    [i \in DOMAIN slots_ |-> [k |-> slots_[i].k, v |-> simplify_forecast(slots_[i].v)]]

\* A reason string f"{time}: <text> ({value} <unit>)": its slot, its text and
\* the value it quotes.
Reason(time, text, value) == [slot |-> time, text |-> text, value |-> value]

\* The five rules of assess_weather_conditions, in the order of the code.  acc
\* is the pair (safe, reasons) before the rule, the result the pair after it.
check_temp(time, data, acc) ==
    IF data.temp < MIN_TEMP
    THEN [safe |-> FALSE,
          reasons |-> Append(acc.reasons, Reason(time, "Temperature too low", data.temp))]
    ELSE acc

check_wind(time, data, acc) ==
    IF data.wind > MAX_WIND
    THEN [safe |-> FALSE,
          reasons |-> Append(acc.reasons, Reason(time, "Wind speed too high", data.wind))]
    ELSE acc

check_weather(time, data, acc) ==
    LET weather == Lower(data.description)
        phrases == BAD_WEATHER \o DANGEROUS_RAIN
    IN  IF \E i \in DOMAIN phrases : Contains(phrases[i], weather)
        THEN [safe |-> FALSE,
              reasons |-> Append(acc.reasons, Reason(time, "Dangerous weather", weather))]
        ELSE acc

check_visibility(time, data, acc) ==
    IF data.visibility < MIN_VISIBILITY
    THEN [safe |-> FALSE,
          reasons |-> Append(acc.reasons, Reason(time, "Poor visibility", data.visibility))]
    ELSE acc

\* Mutation of check_rain: the reason is appended, the flag is left as it was
check_rain_no_flag(time, data, acc) ==
    IF data.rain >= RAIN_LIMIT
    THEN [safe |-> acc.safe,
          reasons |-> Append(acc.reasons, Reason(time, "Heavy rain", data.rain))]
    ELSE acc

\* Mutation of check_rain: the boundary 2.0 mm is not a violation
check_rain_strict(time, data, acc) ==
    IF data.rain > RAIN_LIMIT
    THEN [safe |-> FALSE,
          reasons |-> Append(acc.reasons, Reason(time, "Heavy rain", data.rain))]
    ELSE acc

check_rain(time, data, acc) ==
    IF data.rain >= RAIN_LIMIT
    THEN [safe |-> FALSE,
          reasons |-> Append(acc.reasons, Reason(time, "Heavy rain", data.rain))]
    ELSE acc

\* The body of the loop over summary.items()
assess_slot(time, data, acc) ==
    check_rain(time, data,
        check_visibility(time, data,
            check_weather(time, data,
                check_wind(time, data,
                    check_temp(time, data, acc)))))

RECURSIVE assess_loop(_, _)
assess_loop(items, acc) ==
    IF items = <<>> THEN acc
    ELSE assess_loop(Tail(items), assess_slot(Head(items).k, Head(items).v, acc))

\* Returns the pair (safe, reasons)
assess_weather_conditions(summary_) ==
    assess_loop(summary_, [safe |-> TRUE, reasons |-> <<>>])

----------------------------------------------------------------------------
(* Inputs *)

SeqsUpTo(S, n) == UNION {[1..k -> S] : k \in 0..n}

CLEAR_SKY == <<"c","l","e","a","r"," ","s","k","y">>

LIGHT_RAIN == <<"l","i","g","h","t"," ","r","a","i","n">>

LIGHT_SNOW == <<"L","i","g","h","t"," ","S","n","o","w">>

STORM == <<"T","H","U","N","D","E","R","S","T","O","R","M">>

\* Forecast blocks the provider may return to a run of main(): a mild one at
\* 06:00, a second 06:00 block (the next day) that breaks every rule, one at
\* a time that is no commute time, one at 09:00:30 with every value on its
\* threshold, one at 18:00 whose rain dict has no "3h".
MainEntries ==
    { Entry(1, 6, 0, 0, CLEAR_SKY, 15, 5, Absent, Absent),
      Entry(2, 6, 0, 0, LIGHT_SNOW, 3, 21, Present(2999), Present(Present(20))),
      Entry(1, 7, 0, 0, CLEAR_SKY, 15, 5, Absent, Absent),
      Entry(1, 9, 0, 30, LIGHT_RAIN, 5, 20, Present(3000), Present(Present(19))),
      Entry(1, 18, 0, 0, CLEAR_SKY, 4, 5, Present(10000), Present(Absent)) }

\* What requests.get / raise_for_status / response.json() can produce
FailedResponse(kind) == [kind |-> kind, list |-> <<>>]

OkResponse(list) == [kind |-> "ok", list |-> list]

Responses(entries, n) ==
    {FailedResponse(k) : k \in {"unreachable", "http_error", "invalid_json", "no_list"}}
    \cup {OkResponse(l) : l \in SeqsUpTo(entries, n)}

Tokens == {TAG_SAFE, TAG_NOT_SAFE, "[safe]", "x", " ", "\n", "\r"}

\* The forecast_data of main(): None, or the list of the response
None == [none |-> TRUE, list |-> <<>>]

Some(list) == [none |-> FALSE, list |-> list]

\* Mutation of Falsy: the test "forecast_data is None"
Falsy_none_only(fd) == fd.none

\* not forecast_data
Falsy(fd) == fd.none \/ fd.list = <<>>

----------------------------------------------------------------------------
(* The run of main() *)

Init ==
    /\ pc = "start"
    /\ response = FailedResponse("none")
    /\ forecast_data = None
    /\ slots = <<>>
    /\ summary = <<>>
    /\ safe = TRUE
    /\ reasons = <<>>
    /\ generated = <<>>
    /\ gen_failed = FALSE
    /\ ai_message = <<>>
    /\ emails = <<>>
    /\ called = {}
    /\ raised = ""
    /\ prev = <<>>

\* send_email(subject, body): the message is built and handed to SMTP; a
\* failure of the transport is caught and printed.
send_email(subject, body) ==
    \E delivered \in BOOLEAN :
        emails' = Append(emails, [subject |-> subject, body |-> body,
                                  delivered |-> delivered])

\* forecast_data = fetch_weather_forecast(): a RequestException (no
\* connection, a non-2xx status, a body that is no JSON) gives None; a JSON
\* body without "list" raises KeyError, which nothing catches.
Fetch(resps) ==
    /\ pc = "start"
    /\ \E r \in resps :
        /\ response' = r
        /\ IF r.kind = "no_list"
           THEN /\ pc' = "raised"
                /\ raised' = "KeyError"
                /\ forecast_data' = forecast_data
           ELSE /\ pc' = "fetched"
                /\ raised' = raised
                /\ forecast_data' = IF r.kind = "ok" THEN Some(r.list) ELSE None
    /\ called' = called \cup {"fetch_weather_forecast"}
    /\ UNCHANGED <<slots, summary, safe, reasons, generated, gen_failed,
                   ai_message, emails, prev>>

\* if not forecast_data: send_email(...); return
NoForecast ==
    /\ pc = "fetched"
    /\ Falsy(forecast_data)
    /\ send_email(SUBJECT_ERROR, BODY_NO_FORECAST)
    /\ pc' = "done"
    /\ UNCHANGED <<response, forecast_data, slots, summary, safe, reasons,
                   generated, gen_failed, ai_message, called, raised, prev>>

\* slots = match_time_slots(forecast_data, COMMUTE_TARGETS)
Match ==
    /\ pc = "fetched"
    /\ ~Falsy(forecast_data)
    /\ slots' = match_time_slots(forecast_data.list, COMMUTE_TARGETS)
    /\ called' = called \cup {"match_time_slots"}
    /\ pc' = "matched"
    /\ UNCHANGED <<response, forecast_data, summary, safe, reasons, generated,
                   gen_failed, ai_message, emails, raised, prev>>

\* if not slots: send_email(...); return
NoSlots ==
    /\ pc = "matched"
    /\ slots = <<>>
    /\ send_email(SUBJECT_ERROR, BODY_NO_SLOTS)
    /\ pc' = "done"
    /\ UNCHANGED <<response, forecast_data, slots, summary, safe, reasons,
                   generated, gen_failed, ai_message, called, raised, prev>>

\* summary = summarize_forecast(slots)
\* safe, reasons = assess_weather_conditions(summary)
Assess ==
    /\ pc = "matched"
    /\ slots # <<>>
    /\ summary' = summarize_forecast(slots)
    /\ safe' = assess_weather_conditions(summary').safe
    /\ reasons' = assess_weather_conditions(summary').reasons
    /\ called' = called \cup {"summarize_forecast", "assess_weather_conditions"}
    /\ pc' = "assessed"
    /\ UNCHANGED <<response, forecast_data, slots, generated, gen_failed,
                   ai_message, emails, raised, prev>>

\* ai_message = ai_generate_summary(...), the service answers: the digest and
\* the prompt are built (no step of that can raise on a non-empty or an empty
\* summary), and the stripped content of the completion is returned.
GenerateReturns(contents) ==
    /\ pc = "assessed"
    /\ \E content \in contents :
        /\ generated' = Strip(content)
        /\ ai_message' = Strip(content)
    /\ gen_failed' = FALSE
    /\ called' = called \cup {"ai_generate_summary"}
    /\ pc' = "generated"
    /\ UNCHANGED <<response, forecast_data, slots, summary, safe, reasons,
                   emails, raised, prev>>

\* ai_message = ai_generate_summary(...), the call raises e: the fallback
\* f"(AI summary failed): {e}" is returned, not stripped.
GenerateFails(descriptions) ==
    /\ pc = "assessed"
    /\ \E e \in descriptions :
        /\ generated' = FALLBACK_PREFIX \o e
        /\ ai_message' = FALLBACK_PREFIX \o e
    /\ gen_failed' = TRUE
    /\ called' = called \cup {"ai_generate_summary"}
    /\ pc' = "generated"
    /\ UNCHANGED <<response, forecast_data, slots, summary, safe, reasons,
                   emails, raised, prev>>

\* ai_message.strip().splitlines()
decision_lines == SplitLines(Strip(ai_message))

\* decision_line = ai_message.strip().splitlines()[-1].strip()
decision_line == Strip(decision_lines[Len(decision_lines)])

\* Mutation of decision_subject: a run the assessor found unsafe never says Yes
decision_subject_gated ==
    IF decision_line = <<TAG_SAFE>> /\ safe THEN SUBJECT_YES
    ELSE IF decision_line \in {<<TAG_SAFE>>, <<TAG_NOT_SAFE>>} THEN SUBJECT_NO
    ELSE SUBJECT_UNCLEAR

\* The subject chosen by the if / elif / else on decision_line
decision_subject ==
    IF decision_line = <<TAG_SAFE>> THEN SUBJECT_YES
    ELSE IF decision_line = <<TAG_NOT_SAFE>> THEN SUBJECT_NO
    ELSE SUBJECT_UNCLEAR

\* The ai_message each branch leaves
decision_body ==
    IF decision_line = <<TAG_SAFE>> THEN Strip(RSplitHead(ai_message))
    ELSE IF decision_line = <<TAG_NOT_SAFE>> THEN Strip(RSplitHead(ai_message))
    ELSE ai_message \o UNCLEAR_NOTE

\* The decision extraction and send_email(subject, ai_message).  [-1] of an
\* empty list of lines raises IndexError, which nothing catches.
Decide ==
    /\ pc = "generated"
    /\ IF decision_lines = <<>>
       THEN /\ pc' = "raised"
            /\ raised' = "IndexError"
            /\ UNCHANGED <<ai_message, emails>>
       ELSE /\ ai_message' = decision_body
            /\ send_email(decision_subject, decision_body)
            /\ pc' = "done"
            /\ raised' = raised
    /\ UNCHANGED <<response, forecast_data, slots, summary, safe, reasons,
                   generated, gen_failed, called, prev>>

Next ==
    \/ Fetch(Responses(MainEntries, MaxForecast))
    \/ NoForecast
    \/ Match
    \/ NoSlots
    \/ Assess
    \/ GenerateReturns(SeqsUpTo(Tokens, MaxText))
    \/ GenerateFails(SeqsUpTo(Tokens, MaxErr))
    \/ Decide

Spec == Init /\ [][Next]_vars

----------------------------------------------------------------------------
(* Successive runs: the /run route of main.py calls send_daily_weather_email *)
(* once per request; a run shares nothing with the run before it.  prev     *)
(* records what the last run that reached the decision extraction was given *)
(* and what it sent.                                                        *)

PairEntries ==
    { Entry(1, 6, 0, 0, CLEAR_SKY, 15, 5, Absent, Absent),
      Entry(2, 6, 0, 0, LIGHT_SNOW, 3, 21, Present(2999), Present(Present(20))),
      Entry(1, 7, 0, 0, CLEAR_SKY, 15, 5, Absent, Absent) }

PairResponses ==
    {FailedResponse("unreachable")} \cup {OkResponse(<<e>>) : e \in PairEntries}

PairContents ==
    { <<TAG_SAFE>>, <<"x", "\n", TAG_SAFE>>, <<"x", "\n", TAG_NOT_SAFE>>,
      <<"x", "\n", "[safe]">>, <<"x">>, <<>> }

PairDescriptions == { <<"x">> }

\* run_script on a weekday, after the previous run has ended
NewRun ==
    /\ pc \in {"done", "raised"}
    /\ prev' = IF pc = "done" /\ "ai_generate_summary" \in called
               THEN << [generated |-> generated, safe |-> safe, reasons |-> reasons,
                        subject |-> emails[1].subject, body |-> emails[1].body] >>
               ELSE prev
    /\ pc' = "start"
    /\ response' = FailedResponse("none")
    /\ forecast_data' = None
    /\ slots' = <<>>
    /\ summary' = <<>>
    /\ safe' = TRUE
    /\ reasons' = <<>>
    /\ generated' = <<>>
    /\ gen_failed' = FALSE
    /\ ai_message' = <<>>
    /\ emails' = <<>>
    /\ called' = {}
    /\ raised' = ""

NextPair ==
    \/ Fetch(PairResponses)
    \/ NoForecast
    \/ Match
    \/ NoSlots
    \/ Assess
    \/ GenerateReturns(SeqsUpTo(Tokens, MaxPairText) \cup PairContents)
    \/ GenerateFails(PairDescriptions)
    \/ Decide
    \/ NewRun

SpecPair == Init /\ [][NextPair]_vars

----------------------------------------------------------------------------
(* match_time_slots on its own: any forecast list, the five commute times *)

MatchEntries ==
    { Entry(d, t[1], t[2], t[3], CLEAR_SKY, 15, 5, Absent, Absent) :
        d \in {1, 2},
        t \in { <<6, 0, 0>>, <<6, 0, 30>>, <<9, 0, 0>>, <<7, 0, 0>>, <<6, 30, 0>> } }

InitMatch ==
    /\ pc = "call"
    /\ forecast_data \in {Some(l) : l \in SeqsUpTo(MatchEntries, MaxForecast)}
    /\ response = FailedResponse("none")
    /\ slots = <<>>
    /\ summary = <<>>
    /\ safe = TRUE
    /\ reasons = <<>>
    /\ generated = <<>>
    /\ gen_failed = FALSE
    /\ ai_message = <<>>
    /\ emails = <<>>
    /\ called = {}
    /\ raised = ""
    /\ prev = <<>>

CallMatch ==
    /\ pc = "call"
    /\ slots' = match_time_slots(forecast_data.list, COMMUTE_TARGETS)
    /\ pc' = "returned"
    /\ UNCHANGED <<response, forecast_data, summary, safe, reasons, generated,
                   gen_failed, ai_message, emails, called, raised, prev>>

NextMatch == CallMatch

SpecMatch == InitMatch /\ [][NextMatch]_vars

----------------------------------------------------------------------------
(* assess_weather_conditions on its own: any summary mapping *)

RuleNames == <<"temp", "wind", "weather", "visibility", "rain">>

\* A summary record that breaks exactly the rules of T, every value being on
\* its threshold or one step beyond it
RecordBreaking(T, calm, bad) ==
    [description |-> IF "weather" \in T THEN bad ELSE calm,
     temp |-> IF "temp" \in T THEN MIN_TEMP - 1 ELSE MIN_TEMP,
     wind |-> IF "wind" \in T THEN MAX_WIND + 1 ELSE MAX_WIND,
     visibility |-> IF "visibility" \in T THEN MIN_VISIBILITY - 1 ELSE MIN_VISIBILITY,
     rain |-> IF "rain" \in T THEN RAIN_LIMIT ELSE RAIN_LIMIT - 1]

AssessRecords ==
    { RecordBreaking(T, CLEAR_SKY, LIGHT_SNOW) :
        T \in { {}, {"temp"}, {"wind"}, {"weather"}, {"visibility"}, {"rain"},
                {"temp", "rain"}, {"wind", "weather", "visibility"},
                {"temp", "wind", "weather", "visibility", "rain"} } }
    \cup { RecordBreaking({}, LIGHT_RAIN, CLEAR_SKY),
           RecordBreaking({"weather"}, CLEAR_SKY, STORM) }

\* The summary is any dict with at most MaxSlots keys, all of them commute
\* times, in any order
InitAssess ==
    /\ pc = "call"
    /\ \E m \in 0..MaxSlots :
         \E ks \in [1..m -> SeqToSet(COMMUTE_TARGETS)], vs \in [1..m -> AssessRecords] :
            /\ \A i, j \in 1..m : i # j => ks[i] # ks[j]
            /\ summary = [i \in 1..m |-> [k |-> ks[i], v |-> vs[i]]]
    /\ response = FailedResponse("none")
    /\ forecast_data = None
    /\ slots = <<>>
    /\ safe = TRUE
    /\ reasons = <<>>
    /\ generated = <<>>
    /\ gen_failed = FALSE
    /\ ai_message = <<>>
    /\ emails = <<>>
    /\ called = {}
    /\ raised = ""
    /\ prev = <<>>

CallAssess ==
    /\ pc = "call"
    /\ safe' = assess_weather_conditions(summary).safe
    /\ reasons' = assess_weather_conditions(summary).reasons
    /\ pc' = "returned"
    /\ UNCHANGED <<response, forecast_data, slots, summary, generated,
                   gen_failed, ai_message, emails, called, raised, prev>>

NextAssess == CallAssess

SpecAssess == InitAssess /\ [][NextAssess]_vars

----------------------------------------------------------------------------
(* Properties *)

Ended == pc \in {"done", "raised"}

Reached(f) == f \in called

Downstream ==
    {"match_time_slots", "summarize_forecast", "assess_weather_conditions",
     "ai_generate_summary"}

\* The time of day of a forecast block
TimeOfDay(entry) == <<entry.dt_txt.hh, entry.dt_txt.mm>>

NoCommuteEntry(list) ==
    \A i \in DOMAIN list : TimeOfDay(list[i]) \notin SeqToSet(COMMUTE_TARGETS)

\* The last line of a text, as it stands; <<>> for a text without a line
FinalLine(text) ==
    IF SplitLines(text) = <<>> THEN <<>>
    ELSE SplitLines(text)[Len(SplitLines(text))]

\* What precedes the last line break of a text; nothing when the text is one line
BeforeLastBreak(text) ==
    LET br == {i \in DOMAIN text : IsLineBreak(text[i])}
    IN  IF br = {} THEN <<>>
        ELSE SubSeq(text, 1, (CHOOSE i \in br : \A j \in br : j <= i) - 1)

\* C1: whatever the provider returns among a failed request, an empty list,
\* entries matching no slot and well-formed entries, and whatever the text
\* service does, no exception escapes main() and a run that has ended has
\* called send_email exactly once.
C1_NoEscapeOneEmail ==
    response.kind \in {"unreachable", "http_error", "invalid_json", "ok"}
        => /\ pc # "raised"
           /\ raised = ""
           /\ (pc = "done" => Len(emails) = 1)

\* C2: a generated text whose final line is not exactly "[SAFE]" or
\* "[NOT SAFE]" (a text without any line included) ends in one email with the
\* Unclear subject whose body is the full text followed by the note.
C2_NotExactTagIsUnclear ==
    (Ended /\ Reached("ai_generate_summary")
        /\ FinalLine(generated) \notin {<<"[SAFE]">>, <<"[NOT SAFE]">>})
        => /\ pc = "done"
           /\ Len(emails) = 1
           /\ emails[1].subject = "Ride Today: Unclear"
           /\ emails[1].body = generated \o UNCLEAR_NOTE

\* C3: a generated text whose final line is exactly "[SAFE]" (resp.
\* "[NOT SAFE]") is sent with the Yes (resp. No) subject and with the text
\* before the last line break, trimmed, as body: the tag line is gone, also
\* when it was the only line.
C3_TagLineRemoved ==
    (Ended /\ Reached("ai_generate_summary")
        /\ FinalLine(generated) \in {<<"[SAFE]">>, <<"[NOT SAFE]">>})
        => /\ pc = "done"
           /\ Len(emails) = 1
           /\ emails[1].subject = IF FinalLine(generated) = <<"[SAFE]">>
                                  THEN "Ride Today: Yes" ELSE "Ride Today: No"
           /\ emails[1].body = Strip(BeforeLastBreak(generated))

\* C4: when the fetch fails (provider unreachable, non-2xx status, malformed
\* top-level response) the run sends exactly one email with the body "Could
\* not retrieve forecast." and returns, and never calls match_time_slots,
\* summarize_forecast, assess_weather_conditions or ai_generate_summary.
C4_FetchFailureOneEmail ==
    response.kind \in {"unreachable", "http_error", "invalid_json", "no_list"}
        => /\ called \cap Downstream = {}
           /\ Ended => /\ pc = "done"
                       /\ Len(emails) = 1
                       /\ emails[1].body = <<"Could not retrieve forecast.">>

\* C5 as stated: whenever a forecast is obtained and none of its entries is at
\* a commute time, the run ends with exactly one email whose body is "No
\* matching forecast slots found."; and ai_generate_summary is only called
\* with a non-empty summary.
C5_NoMatchDistinctError ==
    /\ (response.kind = "ok" /\ NoCommuteEntry(response.list) /\ Ended)
        => /\ pc = "done"
           /\ Len(emails) = 1
           /\ emails[1].subject = "Ride Assistant Error"
           /\ emails[1].body = <<"No matching forecast slots found.">>
           /\ emails[1].body # <<"Could not retrieve forecast.">>
    /\ Reached("ai_generate_summary") => summary # <<>>

\* C5 amended: a non-empty forecast without an entry at a commute time ends in
\* exactly one error email with the body "No matching forecast slots found.";
\* an empty forecast list ends in exactly one error email with the fetch
\* failure's body "Could not retrieve forecast."; in both cases the run
\* returns without calling summarize_forecast, assess_weather_conditions or
\* ai_generate_summary; and ai_generate_summary is only called with a
\* non-empty summary.
C5_NonEmptyNoMatchDistinctError ==
    /\ (response.kind = "ok" /\ NoCommuteEntry(response.list))
        => /\ called \cap {"summarize_forecast", "assess_weather_conditions",
                           "ai_generate_summary"} = {}
           /\ Ended => /\ pc = "done"
                       /\ Len(emails) = 1
                       /\ emails[1].subject = "Ride Assistant Error"
                       /\ emails[1].body =
                            IF response.list = <<>>
                            THEN <<"Could not retrieve forecast.">>
                            ELSE <<"No matching forecast slots found.">>
    /\ Reached("ai_generate_summary") => summary # <<>>

C5_Witness ==
    /\ pc = "done"
    /\ response.kind = "ok"
    /\ Len(response.list) = 2
    /\ NoCommuteEntry(response.list)
    /\ Reached("match_time_slots")
    /\ Len(emails) = 1
    /\ emails[1].body = <<"No matching forecast slots found.">>

\* C6: when the text-generation call fails, the fallback text reaches the
\* decision extraction, is classified Unclear, and exactly one email with the
\* Unclear subject is sent.
C6_FailureIsUnclear ==
    (gen_failed /\ Ended)
        => /\ pc = "done"
           /\ SubSeq(generated, 1, Len(FALLBACK_PREFIX)) = FALLBACK_PREFIX
           /\ Len(emails) = 1
           /\ emails[1].subject = "Ride Today: Unclear"

\* The positions of the entries of a forecast list at time of day L
PositionsAt(list, L) == {i \in DOMAIN list : TimeOfDay(list[i]) = L}

\* C7: the result of match_time_slots has key L, for a commute time L, iff an
\* entry of the list is at time of day L, and then its value is the last such
\* entry of the list; it has no other key, and no key twice.
C7_LastMatchPerLabel ==
    pc = "returned" =>
        LET list == forecast_data.list
        IN  /\ \A L \in SeqToSet(COMMUTE_TARGETS) :
                /\ (\E i \in DOMAIN slots : slots[i].k = L) <=> PositionsAt(list, L) # {}
                /\ \A i \in DOMAIN slots :
                      slots[i].k = L =>
                        slots[i].v = list[CHOOSE m \in PositionsAt(list, L) :
                                            \A n \in PositionsAt(list, L) : n <= m]
            /\ \A i \in DOMAIN slots : slots[i].k \in SeqToSet(COMMUTE_TARGETS)
            /\ \A i, j \in DOMAIN slots : slots[i].k = slots[j].k => i = j

C7_Witness ==
    /\ pc = "returned"
    /\ Len(forecast_data.list) = 2
    /\ TimeOfDay(forecast_data.list[1]) = <<6, 0>>
    /\ TimeOfDay(forecast_data.list[2]) = <<6, 0>>
    /\ forecast_data.list[1] # forecast_data.list[2]
    /\ Len(slots) = 1
    /\ slots[1].v = forecast_data.list[2]

\* Whether a rule is triggered by a summary record, as the thresholds are stated
Triggered(rule, data) ==
    CASE rule = "temp" -> data.temp < 5
      [] rule = "wind" -> data.wind > 20
      [] rule = "weather" ->
            \E phrase \in SeqToSet(BAD_WEATHER) \cup SeqToSet(DANGEROUS_RAIN) :
                \E a \in 0..(Len(data.description) - Len(phrase)) :
                    Lower(SubSeq(data.description, a + 1, a + Len(phrase))) = phrase
      [] rule = "visibility" -> data.visibility < 3000
      [] rule = "rain" -> data.rain >= 20

ReasonText(rule) ==
    CASE rule = "temp" -> "Temperature too low"
      [] rule = "wind" -> "Wind speed too high"
      [] rule = "weather" -> "Dangerous weather"
      [] rule = "visibility" -> "Poor visibility"
      [] rule = "rain" -> "Heavy rain"

\* The (slot, rule) pairs of a summary, slot after slot and, within a slot,
\* in the order temperature, wind, weather phrase, visibility, rain
SlotRulePairs(summary_) ==
    [m \in 1..(5 * Len(summary_)) |->
        [slot |-> ((m - 1) \div 5) + 1, rule |-> RuleNames[((m - 1) % 5) + 1]]]

TriggeredPairs(summary_) ==
    LET Hit(p) == Triggered(p.rule, summary_[p.slot].v)
    IN  SelectSeq(SlotRulePairs(summary_), Hit)

\* C8: reasons holds exactly one string per (slot, rule) pair whose rule is
\* triggered, prefixed by the slot label, in slot order and, within a slot,
\* in the order temperature, wind, weather phrase, visibility, rain.
C8_OneReasonPerTriggeredRule ==
    pc = "returned" =>
        LET want == TriggeredPairs(summary)
        IN  /\ Len(reasons) = Len(want)
            /\ \A m \in DOMAIN want :
                  /\ reasons[m].slot = summary[want[m].slot].k
                  /\ reasons[m].text = ReasonText(want[m].rule)

C8_Witness ==
    /\ pc = "returned"
    /\ Len(summary) = 2
    /\ summary[1].k = <<9, 0>>
    /\ summary[2].k = <<6, 0>>
    /\ \A r \in SeqToSet(RuleNames) : Triggered(r, summary[1].v)
    /\ summary[2].v.rain = 20
    /\ summary[2].v.temp = 5
    /\ Len(reasons) = 6
    /\ reasons[6] = Reason(<<6, 0>>, "Heavy rain", 20)

\* C9: safe is false iff reasons is non-empty, and the empty mapping gives
\* safe = true with no reason.
C9_SafeIffNoReason ==
    pc = "returned" =>
        /\ (safe = FALSE) <=> (reasons # <<>>)
        /\ summary = <<>> => (safe = TRUE /\ reasons = <<>>)

C9_Witness ==
    /\ pc = "returned"
    /\ Len(summary) = 2
    /\ ~Triggered("rain", summary[1].v)
    /\ Triggered("rain", summary[2].v)
    /\ safe = FALSE
    /\ Len(reasons) = 1

\* C10: two runs that reach the decision extraction with the same generated
\* text send the same subject and the same body, whatever the assessor found
\* in each of them.
C10_EmailDependsOnTextOnly ==
    (pc = "done" /\ Reached("ai_generate_summary") /\ prev # <<>>
        /\ prev[1].generated = generated)
        => /\ emails[1].subject = prev[1].subject
           /\ emails[1].body = prev[1].body

C10_Witness ==
    /\ pc = "done"
    /\ Reached("ai_generate_summary")
    /\ prev # <<>>
    /\ prev[1].generated = generated
    /\ prev[1].safe = TRUE
    /\ safe = FALSE
    /\ reasons # prev[1].reasons
    /\ emails[1].subject = "Ride Today: Yes"
    /\ prev[1].subject = "Ride Today: Yes"

====
